---- MODULE Spec2Model ----
(***************************************************************************)
(* Model of crates/polars-plan/src/dsl/functions/temporal.rs, built with   *)
(* the "temporal" and "timezones" features enabled.                        *)
(*                                                                         *)
(* A caller constructs one argument record (DatetimeArgs or DurationArgs), *)
(* chains with_* calls on it (each call consumes the record and returns    *)
(* the updated one) and finally hands it to datetime() / duration(), which *)
(* lower it to an Expr::Function node.                                     *)
(*                                                                         *)
(*   chain  the builder values of the call chain: chain[1] is the value    *)
(*          the constructor returned, chain[k+1] the value returned by the *)
(*          k-th with_* call; the last entry is the live builder.          *)
(*   calls  the calls made, calls[k] being the call that returned chain[k] *)
(*   node   the Expr::Function node returned by the lowering function      *)
(*   pc     "start" -> "building" -> "lowered"                             *)
(***************************************************************************)
EXTENDS Integers, Sequences, FiniteSets

VARIABLES chain, calls, node, pc

vars == <<chain, calls, node, pc>>

\* Longest chain of with_* calls explored after the constructor.
MaxCalls == 2

-----------------------------------------------------------------------------
(* Expr, TimeUnit, Option<TimeZone>                                         *)

\* lit(n) for an integer n
lit(n) == [expr |-> "Literal", dtype |-> "Int32", int |-> n]

\* lit(String::from(s))
lit_str(s) == [expr |-> "Literal", dtype |-> "String", str |-> s]

\* col(name)
col(name) == [expr |-> "Column", name |-> name]

\* The expressions callers pass for the unit fields.
Exprs == {lit(20), col("day")}

\* The expressions callers pass to with_ambiguous.
AmbiguousExprs == {lit_str("earliest"), col("ambiguous")}

TimeUnits == {"Nanoseconds", "Microseconds", "Milliseconds"}

None == <<>>

Some(x) == <<x>>

TimeZones == {None, Some("UTC")}

Last(s) == s[Len(s)]

NoNode == [expr |-> "NoNode"]

-----------------------------------------------------------------------------
(* impl_unit_setter!                                                        *)

\* Slip: the setter only fills a field that is still at lit(0), so a second
\* write to the same field is lost.
impl_unit_setter_first_write(self, field, n) ==
  [self EXCEPT ![field] = IF self[field] = lit(0) THEN n ELSE self[field]]

impl_unit_setter(self, field, n) == [self EXCEPT ![field] = n]

-----------------------------------------------------------------------------
(* DatetimeArgs                                                             *)

\* Slip: the ambiguous default is left empty instead of "raise".
DatetimeArgs_default_no_raise ==
  [ year        |-> lit(1970),
    month       |-> lit(1),
    day         |-> lit(1),
    hour        |-> lit(0),
    minute      |-> lit(0),
    second      |-> lit(0),
    microsecond |-> lit(0),
    time_unit   |-> "Microseconds",
    time_zone   |-> None,
    ambiguous   |-> lit_str("") ]

DatetimeArgs_default ==
  [ year        |-> lit(1970),
    month       |-> lit(1),
    day         |-> lit(1),
    hour        |-> lit(0),
    minute      |-> lit(0),
    second      |-> lit(0),
    microsecond |-> lit(0),
    time_unit   |-> "Microseconds",
    time_zone   |-> None,
    ambiguous   |-> lit_str("raise") ]

\* Slip: month and day end up in each other's field.
DatetimeArgs_new_swapped(year, month, day) ==
  [ year        |-> year,
    month       |-> day,
    day         |-> month,
    hour        |-> lit(0),
    minute      |-> lit(0),
    second      |-> lit(0),
    microsecond |-> lit(0),
    time_unit   |-> "Microseconds",
    time_zone   |-> None,
    ambiguous   |-> lit_str("raise") ]

DatetimeArgs_new(year, month, day) ==
  [DatetimeArgs_default EXCEPT !.year = year, !.month = month, !.day = day]

\* Slip: `..Default::default()` written for `..self`.
DatetimeArgs_with_hms_from_default(self, hour, minute, second) ==
  [ year        |-> lit(1970),
    month       |-> lit(1),
    day         |-> lit(1),
    hour        |-> hour,
    minute      |-> minute,
    second      |-> second,
    microsecond |-> lit(0),
    time_unit   |-> "Microseconds",
    time_zone   |-> None,
    ambiguous   |-> lit_str("raise") ]

DatetimeArgs_with_hms(self, hour, minute, second) ==
  [self EXCEPT !.hour = hour, !.minute = minute, !.second = second]

DatetimeArgs_with_year(self, n) == impl_unit_setter(self, "year", n)

DatetimeArgs_with_month(self, n) == impl_unit_setter(self, "month", n)

DatetimeArgs_with_day(self, n) == impl_unit_setter(self, "day", n)

DatetimeArgs_with_hour(self, n) == impl_unit_setter(self, "hour", n)

DatetimeArgs_with_minute(self, n) == impl_unit_setter(self, "minute", n)

DatetimeArgs_with_second(self, n) == impl_unit_setter(self, "second", n)

DatetimeArgs_with_microsecond(self, n) == impl_unit_setter(self, "microsecond", n)

DatetimeArgs_with_time_unit(self, time_unit) ==
  [self EXCEPT !.time_unit = time_unit]

DatetimeArgs_with_time_zone(self, time_zone) ==
  [self EXCEPT !.time_zone = time_zone]

DatetimeArgs_with_ambiguous(self, ambiguous) ==
  [self EXCEPT !.ambiguous = ambiguous]

-----------------------------------------------------------------------------
(* FunctionOptions / FunctionFlags (declared elsewhere in polars-plan)      *)

FunctionFlags_default == {}

FunctionOptions_default ==
  [ collect_groups |-> "GroupWise",
    flags          |-> FunctionFlags_default,
    fmt_str        |-> "" ]

-----------------------------------------------------------------------------
(* datetime()                                                               *)

\* Slip: month and day pushed in the wrong order.
datetime_day_first(args) ==
  [ expr     |-> "Function",
    input    |-> << args.year, args.day, args.month, args.hour, args.minute,
                    args.second, args.microsecond, args.ambiguous >>,
    function |-> [ variant   |-> "DatetimeFunction",
                   time_unit |-> args.time_unit,
                   time_zone |-> args.time_zone ],
    options  |-> [ collect_groups |-> "ElementWise",
                   flags          |-> {"INPUT_WILDCARD_EXPANSION", "ALLOW_RENAME"},
                   fmt_str        |-> "datetime" ] ]

\* Slip: the time zone of the arguments is dropped from the tag.
datetime_no_time_zone(args) ==
  [ expr     |-> "Function",
    input    |-> << args.year, args.month, args.day, args.hour, args.minute,
                    args.second, args.microsecond, args.ambiguous >>,
    function |-> [ variant   |-> "DatetimeFunction",
                   time_unit |-> args.time_unit,
                   time_zone |-> None ],
    options  |-> [ collect_groups |-> "ElementWise",
                   flags          |-> {"INPUT_WILDCARD_EXPANSION", "ALLOW_RENAME"},
                   fmt_str        |-> "datetime" ] ]

datetime(args) ==
  LET year        == args.year
      month       == args.month
      day         == args.day
      hour        == args.hour
      minute      == args.minute
      second      == args.second
      microsecond == args.microsecond
      time_unit   == args.time_unit
      time_zone   == args.time_zone
      ambiguous   == args.ambiguous
      input       == <<year, month, day, hour, minute, second, microsecond,
                       ambiguous>>
  IN [ expr     |-> "Function",
       input    |-> input,
       function |-> [ variant   |-> "DatetimeFunction",
                      time_unit |-> time_unit,
                      time_zone |-> time_zone ],
       options  |-> [ FunctionOptions_default EXCEPT
                        !.collect_groups = "ElementWise",
                        !.flags = FunctionFlags_default
                                    \cup {"INPUT_WILDCARD_EXPANSION"}
                                    \cup {"ALLOW_RENAME"},
                        !.fmt_str = "datetime" ] ]

-----------------------------------------------------------------------------
(* DurationArgs                                                             *)

DurationArgs_default ==
  [ weeks        |-> lit(0),
    days         |-> lit(0),
    hours        |-> lit(0),
    minutes      |-> lit(0),
    seconds      |-> lit(0),
    milliseconds |-> lit(0),
    microseconds |-> lit(0),
    nanoseconds  |-> lit(0),
    time_unit    |-> "Microseconds" ]

\* Slip: new() builds its own record and picks another time unit.
DurationArgs_new_millis ==
  [ weeks        |-> lit(0),
    days         |-> lit(0),
    hours        |-> lit(0),
    minutes      |-> lit(0),
    seconds      |-> lit(0),
    milliseconds |-> lit(0),
    microseconds |-> lit(0),
    nanoseconds  |-> lit(0),
    time_unit    |-> "Milliseconds" ]

DurationArgs_new == DurationArgs_default

\* Struct literal syntax: DurationArgs { time_unit, ..Default::default() }
DurationArgs_literal(time_unit) ==
  [DurationArgs_default EXCEPT !.time_unit = time_unit]

DurationArgs_with_hms(self, hours, minutes, seconds) ==
  [self EXCEPT !.hours = hours, !.minutes = minutes, !.seconds = seconds]

\* Slip: setting nanoseconds also switches the builder to nanosecond precision.
DurationArgs_with_fractional_seconds_unit(self, milliseconds, microseconds, nanoseconds) ==
  [self EXCEPT !.milliseconds = milliseconds,
               !.microseconds = microseconds,
               !.nanoseconds  = nanoseconds,
               !.time_unit    = "Nanoseconds"]

DurationArgs_with_fractional_seconds(self, milliseconds, microseconds, nanoseconds) ==
  [self EXCEPT !.milliseconds = milliseconds,
               !.microseconds = microseconds,
               !.nanoseconds  = nanoseconds]

DurationArgs_with_weeks(self, n) == impl_unit_setter(self, "weeks", n)

DurationArgs_with_days(self, n) == impl_unit_setter(self, "days", n)

DurationArgs_with_hours(self, n) == impl_unit_setter(self, "hours", n)

DurationArgs_with_minutes(self, n) == impl_unit_setter(self, "minutes", n)

DurationArgs_with_seconds(self, n) == impl_unit_setter(self, "seconds", n)

DurationArgs_with_milliseconds(self, n) == impl_unit_setter(self, "milliseconds", n)

DurationArgs_with_microseconds(self, n) == impl_unit_setter(self, "microseconds", n)

DurationArgs_with_nanoseconds(self, n) == impl_unit_setter(self, "nanoseconds", n)

-----------------------------------------------------------------------------
(* duration()                                                               *)

\* Slip: hours and days pushed in the wrong order.
duration_hours_first(args) ==
  [ expr     |-> "Function",
    input    |-> << args.weeks, args.hours, args.days, args.minutes,
                    args.seconds, args.milliseconds, args.microseconds,
                    args.nanoseconds >>,
    function |-> [ variant |-> "Duration", time_unit |-> args.time_unit ],
    options  |-> [ collect_groups |-> "ElementWise",
                   flags          |-> {"INPUT_WILDCARD_EXPANSION"},
                   fmt_str        |-> "" ] ]

\* Slip: the flags of datetime() copied over, ALLOW_RENAME included.
duration_allow_rename(args) ==
  [ expr     |-> "Function",
    input    |-> << args.weeks, args.days, args.hours, args.minutes,
                    args.seconds, args.milliseconds, args.microseconds,
                    args.nanoseconds >>,
    function |-> [ variant |-> "Duration", time_unit |-> args.time_unit ],
    options  |-> [ collect_groups |-> "ElementWise",
                   flags          |-> {"INPUT_WILDCARD_EXPANSION", "ALLOW_RENAME"},
                   fmt_str        |-> "" ] ]

duration(args) ==
  [ expr     |-> "Function",
    input    |-> << args.weeks, args.days, args.hours, args.minutes,
                    args.seconds, args.milliseconds, args.microseconds,
                    args.nanoseconds >>,
    function |-> [ variant |-> "Duration", time_unit |-> args.time_unit ],
    options  |-> [ FunctionOptions_default EXCEPT
                     !.collect_groups = "ElementWise",
                     !.flags = FunctionFlags_default
                                 \cup {"INPUT_WILDCARD_EXPANSION"} ] ]

-----------------------------------------------------------------------------
(* The call chain                                                           *)

Init ==
  /\ chain = <<>>
  /\ calls = <<>>
  /\ node = NoNode
  /\ pc = "start"

\* A constructor call: the chain starts with the value it returns.
Construct(fn, in, value) ==
  /\ pc = "start"
  /\ chain' = <<value>>
  /\ calls' = <<[fn |-> fn, in |-> in]>>
  /\ pc' = "building"
  /\ UNCHANGED node

\* A with_* call: consumes the live builder, returns the updated one.
Chain(fn, in, value) ==
  /\ chain' = Append(chain, value)
  /\ calls' = Append(calls, [fn |-> fn, in |-> in])
  /\ UNCHANGED <<node, pc>>

IsDatetimeArgs(b) == "year" \in DOMAIN b

IsDurationArgs(b) == "weeks" \in DOMAIN b

\* The live builder is a DatetimeArgs and the chain may grow.
OnDatetimeArgs ==
  /\ pc = "building"
  /\ IsDatetimeArgs(Last(chain))
  /\ Len(calls) <= MaxCalls

\* The live builder is a DurationArgs and the chain may grow.
OnDurationArgs ==
  /\ pc = "building"
  /\ IsDurationArgs(Last(chain))
  /\ Len(calls) <= MaxCalls

CallDatetimeArgsDefault ==
  Construct("DatetimeArgs::default", <<>>, DatetimeArgs_default)

CallDatetimeArgsNew ==
  \E y \in Exprs, m \in Exprs, d \in Exprs :
    Construct("DatetimeArgs::new", <<y, m, d>>, DatetimeArgs_new(y, m, d))

CallDatetimeWithHms ==
  /\ OnDatetimeArgs
  /\ \E h \in Exprs, m \in Exprs, s \in Exprs :
       Chain("DatetimeArgs::with_hms", <<h, m, s>>,
             DatetimeArgs_with_hms(Last(chain), h, m, s))

CallWithYear ==
  /\ OnDatetimeArgs
  /\ \E n \in Exprs :
       Chain("DatetimeArgs::with_year", <<n>>,
             DatetimeArgs_with_year(Last(chain), n))

CallWithMonth ==
  /\ OnDatetimeArgs
  /\ \E n \in Exprs :
       Chain("DatetimeArgs::with_month", <<n>>,
             DatetimeArgs_with_month(Last(chain), n))

CallWithDay ==
  /\ OnDatetimeArgs
  /\ \E n \in Exprs :
       Chain("DatetimeArgs::with_day", <<n>>,
             DatetimeArgs_with_day(Last(chain), n))

CallWithHour ==
  /\ OnDatetimeArgs
  /\ \E n \in Exprs :
       Chain("DatetimeArgs::with_hour", <<n>>,
             DatetimeArgs_with_hour(Last(chain), n))

CallWithMinute ==
  /\ OnDatetimeArgs
  /\ \E n \in Exprs :
       Chain("DatetimeArgs::with_minute", <<n>>,
             DatetimeArgs_with_minute(Last(chain), n))

CallWithSecond ==
  /\ OnDatetimeArgs
  /\ \E n \in Exprs :
       Chain("DatetimeArgs::with_second", <<n>>,
             DatetimeArgs_with_second(Last(chain), n))

CallWithMicrosecond ==
  /\ OnDatetimeArgs
  /\ \E n \in Exprs :
       Chain("DatetimeArgs::with_microsecond", <<n>>,
             DatetimeArgs_with_microsecond(Last(chain), n))

CallWithTimeUnit ==
  /\ OnDatetimeArgs
  /\ \E tu \in TimeUnits :
       Chain("DatetimeArgs::with_time_unit", <<tu>>,
             DatetimeArgs_with_time_unit(Last(chain), tu))

CallWithTimeZone ==
  /\ OnDatetimeArgs
  /\ \E tz \in TimeZones :
       Chain("DatetimeArgs::with_time_zone", <<tz>>,
             DatetimeArgs_with_time_zone(Last(chain), tz))

CallWithAmbiguous ==
  /\ OnDatetimeArgs
  /\ \E a \in AmbiguousExprs :
       Chain("DatetimeArgs::with_ambiguous", <<a>>,
             DatetimeArgs_with_ambiguous(Last(chain), a))

CallDatetime ==
  /\ pc = "building"
  /\ IsDatetimeArgs(Last(chain))
  /\ node' = datetime(Last(chain))
  /\ pc' = "lowered"
  /\ UNCHANGED <<chain, calls>>

CallDurationArgsNew ==
  Construct("DurationArgs::new", <<>>, DurationArgs_new)

CallDurationArgsLiteral ==
  \E tu \in TimeUnits :
    Construct("DurationArgs{..}", <<tu>>, DurationArgs_literal(tu))

CallDurationWithHms ==
  /\ OnDurationArgs
  /\ \E h \in Exprs, m \in Exprs, s \in Exprs :
       Chain("DurationArgs::with_hms", <<h, m, s>>,
             DurationArgs_with_hms(Last(chain), h, m, s))

CallWithFractionalSeconds ==
  /\ OnDurationArgs
  /\ \E ms \in Exprs, us \in Exprs, ns \in Exprs :
       Chain("DurationArgs::with_fractional_seconds", <<ms, us, ns>>,
             DurationArgs_with_fractional_seconds(Last(chain), ms, us, ns))

CallWithWeeks ==
  /\ OnDurationArgs
  /\ \E n \in Exprs :
       Chain("DurationArgs::with_weeks", <<n>>,
             DurationArgs_with_weeks(Last(chain), n))

CallWithDays ==
  /\ OnDurationArgs
  /\ \E n \in Exprs :
       Chain("DurationArgs::with_days", <<n>>,
             DurationArgs_with_days(Last(chain), n))

CallWithHours ==
  /\ OnDurationArgs
  /\ \E n \in Exprs :
       Chain("DurationArgs::with_hours", <<n>>,
             DurationArgs_with_hours(Last(chain), n))

CallWithMinutes ==
  /\ OnDurationArgs
  /\ \E n \in Exprs :
       Chain("DurationArgs::with_minutes", <<n>>,
             DurationArgs_with_minutes(Last(chain), n))

CallWithSeconds ==
  /\ OnDurationArgs
  /\ \E n \in Exprs :
       Chain("DurationArgs::with_seconds", <<n>>,
             DurationArgs_with_seconds(Last(chain), n))

CallWithMilliseconds ==
  /\ OnDurationArgs
  /\ \E n \in Exprs :
       Chain("DurationArgs::with_milliseconds", <<n>>,
             DurationArgs_with_milliseconds(Last(chain), n))

CallWithMicroseconds ==
  /\ OnDurationArgs
  /\ \E n \in Exprs :
       Chain("DurationArgs::with_microseconds", <<n>>,
             DurationArgs_with_microseconds(Last(chain), n))

CallWithNanoseconds ==
  /\ OnDurationArgs
  /\ \E n \in Exprs :
       Chain("DurationArgs::with_nanoseconds", <<n>>,
             DurationArgs_with_nanoseconds(Last(chain), n))

CallDuration ==
  /\ pc = "building"
  /\ IsDurationArgs(Last(chain))
  /\ node' = duration(Last(chain))
  /\ pc' = "lowered"
  /\ UNCHANGED <<chain, calls>>

Next ==
  \/ CallDatetimeArgsDefault
  \/ CallDatetimeArgsNew
  \/ CallDatetimeWithHms
  \/ CallWithYear
  \/ CallWithMonth
  \/ CallWithDay
  \/ CallWithHour
  \/ CallWithMinute
  \/ CallWithSecond
  \/ CallWithMicrosecond
  \/ CallWithTimeUnit
  \/ CallWithTimeZone
  \/ CallWithAmbiguous
  \/ CallDatetime
  \/ CallDurationArgsNew
  \/ CallDurationArgsLiteral
  \/ CallDurationWithHms
  \/ CallWithFractionalSeconds
  \/ CallWithWeeks
  \/ CallWithDays
  \/ CallWithHours
  \/ CallWithMinutes
  \/ CallWithSeconds
  \/ CallWithMilliseconds
  \/ CallWithMicroseconds
  \/ CallWithNanoseconds
  \/ CallDuration

Spec == Init /\ [][Next]_vars

TypeOK ==
  /\ pc \in {"start", "building", "lowered"}
  /\ Len(chain) = Len(calls)
  /\ Len(calls) <= MaxCalls + 1
  /\ (pc = "lowered") = (node # NoNode)

-----------------------------------------------------------------------------
(* Reading the call chain                                                   *)

DatetimeOrder ==
  <<"year", "month", "day", "hour", "minute", "second", "microsecond",
    "ambiguous">>

DurationOrder ==
  <<"weeks", "days", "hours", "minutes", "seconds", "milliseconds",
    "microseconds", "nanoseconds">>

DatetimeFields ==
  {"year", "month", "day", "hour", "minute", "second", "microsecond",
   "time_unit", "time_zone", "ambiguous"}

DurationFields ==
  {"weeks", "days", "hours", "minutes", "seconds", "milliseconds",
   "microseconds", "nanoseconds", "time_unit"}

\* The fields a with_* method is declared to set, in the order of its
\* arguments; no fields for a constructor.
SetterFields(fn) ==
  CASE fn = "DatetimeArgs::with_hms" -> <<"hour", "minute", "second">>
    [] fn = "DatetimeArgs::with_year" -> <<"year">>
    [] fn = "DatetimeArgs::with_month" -> <<"month">>
    [] fn = "DatetimeArgs::with_day" -> <<"day">>
    [] fn = "DatetimeArgs::with_hour" -> <<"hour">>
    [] fn = "DatetimeArgs::with_minute" -> <<"minute">>
    [] fn = "DatetimeArgs::with_second" -> <<"second">>
    [] fn = "DatetimeArgs::with_microsecond" -> <<"microsecond">>
    [] fn = "DatetimeArgs::with_time_unit" -> <<"time_unit">>
    [] fn = "DatetimeArgs::with_time_zone" -> <<"time_zone">>
    [] fn = "DatetimeArgs::with_ambiguous" -> <<"ambiguous">>
    [] fn = "DurationArgs::with_hms" -> <<"hours", "minutes", "seconds">>
    [] fn = "DurationArgs::with_fractional_seconds" ->
         <<"milliseconds", "microseconds", "nanoseconds">>
    [] fn = "DurationArgs::with_weeks" -> <<"weeks">>
    [] fn = "DurationArgs::with_days" -> <<"days">>
    [] fn = "DurationArgs::with_hours" -> <<"hours">>
    [] fn = "DurationArgs::with_minutes" -> <<"minutes">>
    [] fn = "DurationArgs::with_seconds" -> <<"seconds">>
    [] fn = "DurationArgs::with_milliseconds" -> <<"milliseconds">>
    [] fn = "DurationArgs::with_microseconds" -> <<"microseconds">>
    [] fn = "DurationArgs::with_nanoseconds" -> <<"nanoseconds">>
    [] OTHER -> <<>>

IsSingle(c) == Len(SetterFields(c.fn)) = 1

IsGrouped(c) == Len(SetterFields(c.fn)) = 3

\* The fields a setter call is declared to set.
Targets(c) ==
  LET fs == SetterFields(c.fn) IN {fs[i] : i \in DOMAIN fs}

\* The value a setter call passes for field f, f one of its targets.
Passed(c, f) ==
  LET fs == SetterFields(c.fn) IN c.in[CHOOSE i \in DOMAIN fs : fs[i] = f]

\* The setter calls among the first k calls that set field f.
Writers(f, k) == {j \in 2..k : f \in Targets(calls[j])}

Max(S) == CHOOSE x \in S : \A y \in S : y <= x

Built == pc # "start"

Lowered == pc = "lowered"

FromDatetimeArgs == Built /\ IsDatetimeArgs(chain[1])

FromDurationArgs == Built /\ IsDurationArgs(chain[1])

-----------------------------------------------------------------------------
(* C1 *)

\* C1: datetime(args) returns a node with exactly 8 children, child i being
\* the current value of the i-th field of [year, month, day, hour, minute,
\* second, microsecond, ambiguous]: nothing dropped, duplicated or reordered.
DatetimeChildrenInOrder ==
  (Lowered /\ FromDatetimeArgs) =>
    /\ node.expr = "Function"
    /\ Len(node.input) = 8
    /\ \A i \in 1..8 : node.input[i] = Last(chain)[DatetimeOrder[i]]

\* new(20, day, 20).with_hms(day, 20, day) lowered: neighbours all differ.
DatetimeChildrenWitness ==
  /\ Lowered /\ FromDatetimeArgs
  /\ calls[1].fn = "DatetimeArgs::new"
  /\ Len(calls) = 2 /\ calls[2].fn = "DatetimeArgs::with_hms"
  /\ node.input = << lit(20), col("day"), lit(20), col("day"), lit(20),
                     col("day"), lit(0), lit_str("raise") >>

-----------------------------------------------------------------------------
(* C2 *)

\* C2: duration(args) returns a node with exactly 8 children, child i being
\* the current value of the i-th field of [weeks, days, hours, minutes,
\* seconds, milliseconds, microseconds, nanoseconds].
DurationChildrenInOrder ==
  (Lowered /\ FromDurationArgs) =>
    /\ node.expr = "Function"
    /\ Len(node.input) = 8
    /\ \A i \in 1..8 : node.input[i] = Last(chain)[DurationOrder[i]]

\* DurationArgs::new().with_weeks(a).with_hours(b) lowered to [a,0,b,0,0,0,0,0].
DurationChildrenWitness ==
  /\ Lowered /\ FromDurationArgs
  /\ calls[1].fn = "DurationArgs::new"
  /\ Len(calls) = 3
  /\ calls[2].fn = "DurationArgs::with_weeks"
  /\ calls[3].fn = "DurationArgs::with_hours"
  /\ node.input = << lit(20), lit(0), col("day"), lit(0), lit(0), lit(0),
                     lit(0), lit(0) >>

-----------------------------------------------------------------------------
(* C3 *)

\* The argument of the most recent call of setter fn, else dflt.
LastPassed(fn, dflt) ==
  LET S == {j \in 2..Len(calls) : calls[j].fn = fn}
  IN IF S = {} THEN dflt ELSE calls[Max(S)].in[1]

\* C3: the static configuration reaches the node only through the tag, and
\* unchanged. The tag of datetime(args) is DatetimeFunction{time_unit,
\* time_zone} holding args.time_unit and args.time_zone (the last
\* with_time_unit / with_time_zone values, else Microseconds / none); the tag of
\* duration(args) is Duration(args.time_unit) and nothing else; the children
\* are expressions only.
ConfigurationInTag ==
  Lowered =>
    /\ \A i \in 1..Len(node.input) : "expr" \in DOMAIN node.input[i]
    /\ FromDatetimeArgs =>
         /\ node.function = [ variant   |-> "DatetimeFunction",
                              time_unit |-> Last(chain).time_unit,
                              time_zone |-> Last(chain).time_zone ]
         /\ node.function.time_unit =
              LastPassed("DatetimeArgs::with_time_unit", chain[1].time_unit)
         /\ node.function.time_zone =
              LastPassed("DatetimeArgs::with_time_zone", chain[1].time_zone)
         /\ chain[1].time_unit = "Microseconds"
         /\ chain[1].time_zone = None
    /\ FromDurationArgs =>
         node.function = [ variant   |-> "Duration",
                           time_unit |-> Last(chain).time_unit ]

\* A datetime node whose tag carries a time unit and a zone that were set.
ConfigurationInTagWitness ==
  /\ Lowered /\ FromDatetimeArgs
  /\ Len(calls) = 3
  /\ calls[2] = [fn |-> "DatetimeArgs::with_time_unit", in |-> <<"Nanoseconds">>]
  /\ calls[3] = [fn |-> "DatetimeArgs::with_time_zone", in |-> <<Some("UTC")>>]
  /\ node.function.time_unit = "Nanoseconds"
  /\ node.function.time_zone = Some("UTC")

-----------------------------------------------------------------------------
(* C4 *)

\* C4: the evaluation options depend only on the lowering function. Both
\* nodes are ElementWise with INPUT_WILDCARD_EXPANSION set; ALLOW_RENAME is set
\* on every datetime node and on no duration node; the datetime label is
\* "datetime".
OptionsFixedPerFunction ==
  Lowered =>
    /\ node.options.collect_groups = "ElementWise"
    /\ "INPUT_WILDCARD_EXPANSION" \in node.options.flags
    /\ FromDatetimeArgs =>
         /\ "ALLOW_RENAME" \in node.options.flags
         /\ node.options.fmt_str = "datetime"
         /\ node.options = datetime(DatetimeArgs_default).options
    /\ FromDurationArgs =>
         /\ "ALLOW_RENAME" \notin node.options.flags
         /\ node.options = duration(DurationArgs_default).options

\* A duration node built from arguments that are not the default ones.
OptionsWitness ==
  /\ Lowered /\ FromDurationArgs
  /\ Last(chain) # DurationArgs_default
  /\ Last(chain).time_unit = "Nanoseconds"
  /\ "ALLOW_RENAME" \notin node.options.flags

-----------------------------------------------------------------------------
(* C5 *)

\* C5: DatetimeArgs::new(y, m, d) returns year = y, month = m, day = d,
\* hour = minute = second = microsecond = lit(0), time_unit = Microseconds,
\* time_zone = none, ambiguous = lit("raise").
DatetimeArgsNewValue ==
  (Built /\ calls[1].fn = "DatetimeArgs::new") =>
    chain[1] = [ year        |-> calls[1].in[1],
                 month       |-> calls[1].in[2],
                 day         |-> calls[1].in[3],
                 hour        |-> lit(0),
                 minute      |-> lit(0),
                 second      |-> lit(0),
                 microsecond |-> lit(0),
                 time_unit   |-> "Microseconds",
                 time_zone   |-> None,
                 ambiguous   |-> lit_str("raise") ]

\* new(20, col("day"), 20) has just returned.
DatetimeArgsNewWitness ==
  /\ pc = "building"
  /\ calls = << [fn |-> "DatetimeArgs::new",
                 in |-> <<lit(20), col("day"), lit(20)>>] >>
  /\ chain[1].month = col("day")
  /\ chain[1].day = lit(20)

-----------------------------------------------------------------------------
(* C6 *)

\* C6: DurationArgs::new() returns the DurationArgs default value: the eight
\* unit fields are lit(0) and time_unit is Microseconds.
DurationArgsNewIsDefault ==
  (Built /\ calls[1].fn = "DurationArgs::new") =>
    /\ chain[1] = DurationArgs_default
    /\ DOMAIN chain[1] = DurationFields
    /\ \A i \in 1..8 : chain[1][DurationOrder[i]] = lit(0)
    /\ chain[1].time_unit = "Microseconds"

\* DurationArgs::new() has just returned.
DurationArgsNewWitness ==
  /\ pc = "building"
  /\ calls = << [fn |-> "DurationArgs::new", in |-> <<>>] >>
  /\ chain[1].weeks = lit(0)

-----------------------------------------------------------------------------
(* C7 *)

\* What the three single-field setters, applied one after another, return.
OneByOne(fn, self, a, b, c) ==
  CASE fn = "DatetimeArgs::with_hms" ->
         DatetimeArgs_with_second(
           DatetimeArgs_with_minute(DatetimeArgs_with_hour(self, a), b), c)
    [] fn = "DurationArgs::with_hms" ->
         DurationArgs_with_seconds(
           DurationArgs_with_minutes(DurationArgs_with_hours(self, a), b), c)
    [] fn = "DurationArgs::with_fractional_seconds" ->
         DurationArgs_with_nanoseconds(
           DurationArgs_with_microseconds(
             DurationArgs_with_milliseconds(self, a), b), c)

\* C7: a grouped setter (DatetimeArgs::with_hms, DurationArgs::with_hms,
\* DurationArgs::with_fractional_seconds) replaces exactly its three fields,
\* leaves every other field at its prior value, and returns what the three
\* single-field setters applied one after another return, from any prior
\* builder state.
GroupedSetterFrame ==
  Built =>
    \A k \in 2..Len(calls) :
      IsGrouped(calls[k]) =>
        LET c  == calls[k]
            fs == SetterFields(c.fn)
        IN /\ DOMAIN chain[k] = DOMAIN chain[k-1]
           /\ \A i \in 1..3 : chain[k][fs[i]] = c.in[i]
           /\ \A f \in DOMAIN chain[k-1] \ {fs[1], fs[2], fs[3]} :
                chain[k][f] = chain[k-1][f]
           /\ chain[k] = OneByOne(c.fn, chain[k-1], c.in[1], c.in[2], c.in[3])

\* with_hms on a builder whose other fields have left their defaults.
GroupedSetterWitness ==
  /\ pc = "building"
  /\ Len(calls) = 3
  /\ calls[1].fn = "DatetimeArgs::new"
  /\ calls[2] = [fn |-> "DatetimeArgs::with_time_unit", in |-> <<"Milliseconds">>]
  /\ calls[3] = [fn |-> "DatetimeArgs::with_hms",
                 in |-> <<lit(20), col("day"), lit(20)>>]
  /\ chain[3].time_unit = "Milliseconds"
  /\ chain[3].year = calls[1].in[1]

-----------------------------------------------------------------------------
(* C8 *)

\* C8: last write wins. After any chain of setter calls every field holds the
\* value passed by the most recent call that sets it, or its value at
\* construction if no call set it; a single-field setter changes exactly one
\* field; nothing is accumulated.
LastWriteWins ==
  Built =>
    \A k \in 1..Len(calls) :
      /\ DOMAIN chain[k] = DOMAIN chain[1]
      /\ \A f \in DOMAIN chain[k] :
           LET W == Writers(f, k)
           IN chain[k][f] = IF W = {} THEN chain[1][f]
                                      ELSE Passed(calls[Max(W)], f)
      /\ (k > 1 /\ IsSingle(calls[k])) =>
           Cardinality({f \in DOMAIN chain[k] : chain[k][f] # chain[k-1][f]}) <= 1

\* The same single-field setter called twice with different values.
LastWriteWinsWitness ==
  /\ pc = "building"
  /\ Len(calls) = 3
  /\ calls[2] = [fn |-> "DurationArgs::with_days", in |-> <<lit(20)>>]
  /\ calls[3] = [fn |-> "DurationArgs::with_days", in |-> <<col("day")>>]
  /\ chain[2].days = lit(20)
  /\ chain[3].days = col("day")

-----------------------------------------------------------------------------
(* C9 *)

DatetimeUnits ==
  {"year", "month", "day", "hour", "minute", "second", "microsecond"}

\* Field f was supplied by the constructor's arguments or by a setter call.
Supplied(f) ==
  \/ calls[1].fn = "DatetimeArgs::new" /\ f \in {"year", "month", "day"}
  \/ Writers(f, Len(calls)) # {}

\* C9 as stated: in every DatetimeArgs obtained from DatetimeArgs::new or the
\* Default value followed by with_* calls, every unit field nothing has
\* supplied holds lit(0), ambiguous holds lit("raise"), time_unit is
\* Microseconds and time_zone is none unless set.
UnsetFieldsAreZero ==
  FromDatetimeArgs =>
    LET a == Last(chain)
    IN /\ \A f \in DatetimeUnits : ~Supplied(f) => a[f] = lit(0)
       /\ ~Supplied("ambiguous") => a.ambiguous = lit_str("raise")
       /\ ~Supplied("time_unit") => a.time_unit = "Microseconds"
       /\ ~Supplied("time_zone") => a.time_zone = None

\* C9 amended: unsupplied hour, minute, second and microsecond hold lit(0);
\* unsupplied year, month and day (the Default value only) hold lit(1970),
\* lit(1) and lit(1); ambiguous, time_unit and time_zone as stated.
UnsetFieldsAreDefault ==
  FromDatetimeArgs =>
    LET a == Last(chain)
    IN /\ \A f \in {"hour", "minute", "second", "microsecond"} :
            ~Supplied(f) => a[f] = lit(0)
       /\ ~Supplied("year") => a.year = lit(1970)
       /\ \A f \in {"month", "day"} : ~Supplied(f) => a[f] = lit(1)
       /\ ~Supplied("ambiguous") => a.ambiguous = lit_str("raise")
       /\ ~Supplied("time_unit") => a.time_unit = "Microseconds"
       /\ ~Supplied("time_zone") => a.time_zone = None

\* The Default value after two setter calls that leave year, month, day alone.
UnsetFieldsWitness ==
  /\ pc = "building"
  /\ Len(calls) = 3
  /\ calls[1].fn = "DatetimeArgs::default"
  /\ calls[2].fn = "DatetimeArgs::with_hour"
  /\ calls[3].fn = "DatetimeArgs::with_time_zone"
  /\ Last(chain).year = lit(1970)
  /\ Last(chain).minute = lit(0)
  /\ Last(chain).ambiguous = lit_str("raise")

-----------------------------------------------------------------------------
(* C10 *)

\* C10: no DurationArgs builder method changes time_unit. Every builder
\* reached from DurationArgs::new() has time_unit Microseconds, duration() of
\* it has tag Duration(Microseconds), no call changes the time_unit of the
\* value it is applied to, and so another time unit comes only from
\* constructing the record's fields directly.
DurationTimeUnitFixed ==
  FromDurationArgs =>
    /\ \A k \in 2..Len(calls) : chain[k].time_unit = chain[k-1].time_unit
    /\ calls[1].fn = "DurationArgs::new" =>
         /\ \A k \in 1..Len(calls) : chain[k].time_unit = "Microseconds"
         /\ Lowered => node.function =
                         [variant |-> "Duration", time_unit |-> "Microseconds"]
    /\ Last(chain).time_unit # "Microseconds" => calls[1].fn = "DurationArgs{..}"

\* new().with_hms(..).with_fractional_seconds(..) lowered.
DurationTimeUnitWitness ==
  /\ Lowered /\ FromDurationArgs
  /\ calls[1].fn = "DurationArgs::new"
  /\ Len(calls) = 3
  /\ calls[2].fn = "DurationArgs::with_hms"
  /\ calls[3].fn = "DurationArgs::with_fractional_seconds"
  /\ node.function.time_unit = "Microseconds"
====
